---- MODULE Spec2Model ----
(***************************************************************************)
(* A model of the dodo command line parser (clp.hh, clp.inl,               *)
(* parse_traits.hh).  A text (token, pattern, matched text, string value)  *)
(* is a sequence of one-character strings.  An option is the chain of its  *)
(* decorator layers, innermost (the Option base) first: the layer at the   *)
(* end of the sequence is the most derived class.                          *)
(***************************************************************************)
EXTENDS Integers, Sequences, FiniteSets, TLC

VARIABLES
    opt,        \* the single option being composed (chain of layers)
    cli,        \* the Compound being composed (sequence of options)
    commands,   \* the CommandSelector being composed (sequence of commands)
    argv,       \* the argument list of the current call
    result,     \* what the last parse call returned (NotCalled before it)
    callee,     \* the parser the last call was made on ("none" before it)
    ran,        \* the parsers whose parse was invoked by the last call
    pc          \* "compose", "args" (building argv) or "done" (parse returned)

vars == <<opt, cli, commands, argv, result, callee, ran, pc>>

\* ---------------------------------------------------------------- bounds

MaxLayers == 3      \* decorators applied to one option
MaxArgs == 2        \* tokens in the argument list given to a single option
MaxCliArgs == 3     \* tokens in the argument list given to a Compound or a selector
MaxMembers == 4     \* options of a Compound, commands of a CommandSelector

\* ------------------------------------------------------- std::optional

None == <<>>
Some(v) == <<v>>
NotCalled == "not called"

\* ------------------------------------------------------------- texts

Size(text) == Len(text)

starts_with(text, prefix) ==
    /\ Len(prefix) <= Len(text)
    /\ SubSeq(text, 1, Len(prefix)) = prefix

\* text.substr(pos): pos is a 0-based offset
substr(text, pos) == SubSeq(text, pos + 1, Len(text))

\* ------------------------------------------------------- parse_traits

Int32Max == 2147483647

Digits == {"0", "1", "2", "3", "4", "5", "6", "7", "8", "9"}

DigitValue(c) ==
    CASE c = "0" -> 0 [] c = "1" -> 1 [] c = "2" -> 2 [] c = "3" -> 3
      [] c = "4" -> 4 [] c = "5" -> 5 [] c = "6" -> 6 [] c = "7" -> 7
      [] c = "8" -> 8 [] c = "9" -> 9

RECURSIVE Magnitude(_)
Magnitude(digits) ==
    IF digits = <<>> THEN 0
    ELSE 10 * Magnitude(SubSeq(digits, 1, Len(digits) - 1))
         + DigitValue(digits[Len(digits)])

\* std::from_chars on a signed integer: an optional '-', then digits only;
\* the whole text must be consumed and the value must fit the type.
charconv_parse(text) ==
    LET negative == text # <<>> /\ text[1] = "-"
        digits == IF negative THEN substr(text, 1) ELSE text
    IN  IF digits = <<>> \/ \E i \in 1..Len(digits) : digits[i] \notin Digits
        THEN None
        ELSE LET m == Magnitude(digits)
             IN  IF negative
                 THEN IF m > Int32Max + 1 THEN None ELSE Some(0 - m)
                 ELSE IF m > Int32Max THEN None ELSE Some(m)

bool_parse(text) ==
    IF text = <<"t", "r", "u", "e">> THEN Some(TRUE)
    ELSE IF text = <<"f", "a", "l", "s", "e">> THEN Some(FALSE)
    ELSE None

string_parse(text) == Some(text)

parse_traits_parse(type, text) ==
    CASE type = "int" -> charconv_parse(text)
      [] type = "bool" -> bool_parse(text)
      [] type = "string" -> string_parse(text)

DigitChar(d) ==
    CASE d = 0 -> "0" [] d = 1 -> "1" [] d = 2 -> "2" [] d = 3 -> "3"
      [] d = 4 -> "4" [] d = 5 -> "5" [] d = 6 -> "6" [] d = 7 -> "7"
      [] d = 8 -> "8" [] d = 9 -> "9"

RECURSIVE DigitsOf(_)
DigitsOf(n) ==
    IF n < 10 THEN <<DigitChar(n)>>
    ELSE Append(DigitsOf(n \div 10), DigitChar(n % 10))

\* std::to_string on a signed integer
std_to_string(x) == IF x < 0 THEN <<"-">> \o DigitsOf(0 - x) ELSE DigitsOf(x)

bool_to_string(x) == IF x THEN <<"t", "r", "u", "e">> ELSE <<"f", "a", "l", "s", "e">>

string_to_string(s) == s

parse_traits_to_string(type, x) ==
    CASE type = "int" -> std_to_string(x)
      [] type = "bool" -> bool_to_string(x)
      [] type = "string" -> string_to_string(x)

\* --------------------------------------------- options: decorator chain

Layer(kind, arg) == [kind |-> kind, arg |-> arg]

\* clp_Opt(type, var)
clp_Opt(type, var) == <<Layer("Option", [type |-> type, var |-> var])>>

Top(o) == o[Len(o)]
Base(o) == SubSeq(o, 1, Len(o) - 1)
HasLayer(o, kind) == \E i \in 1..Len(o) : o[i].kind = kind

\* the member a name lookup finds: the one of the most derived layer
Member(o, kind) ==
    LET i == CHOOSE i \in 1..Len(o) :
                 /\ o[i].kind = kind
                 /\ \A j \in (i + 1)..Len(o) : o[j].kind # kind
    IN  o[i].arg

value_type(o) == o[1].arg.type
var_name(o) == o[1].arg.var

Pattern(o) == HasLayer(o, "WithPattern")
HasImplicitValue(o) == HasLayer(o, "WithImplicitValue")
HasDefaultValue(o) == HasLayer(o, "WithDefaultValue")
HasValidationCheck(o) == HasLayer(o, "WithCheck")
SingleOption(o) == Pattern(o)

default_value(o) == Member(o, "WithDefaultValue")

\* implicit_value giving way to the default value when there is one
implicit_value_unless_default(o) ==
    IF HasDefaultValue(o) THEN default_value(o) ELSE Member(o, "WithImplicitValue")

implicit_value(o) == Member(o, "WithImplicitValue")

\* OptionInterface's methods, each returning the option with one more layer
with_pattern(o, pattern) == Append(o, Layer("WithPattern", pattern))
default_to(o, v) == Append(o, Layer("WithDefaultValue", v))
implicitly(o, v) == Append(o, Layer("WithImplicitValue", v))
\* WithCheck keeps the predicate and, in a private member, the message
check(o, predicate, error_message) ==
    Append(o, [kind |-> "WithCheck", arg |-> predicate, error_message |-> error_message])
custom_parser(o, f) == Append(o, Layer("WithCustomParser", f))

hint(o, custom_hint) == Append(o, Layer("WithCustomHint", custom_hint))

\* operator ()
with_description(o, text) == Append(o, Layer("WithDescription", text))

HasDescription(o) == HasLayer(o, "WithDescription")
description(o) == Member(o, "WithDescription")

\* clp_Flag(var)
clp_Flag(var) == implicitly(default_to(clp_Opt("bool", var), FALSE), TRUE)

\* pattern_match without the test for '=' after the pattern
pattern_match_any_prefix(pattern, text) ==
    IF starts_with(text, pattern)
    THEN IF Size(text) = Size(pattern) THEN Some(<<>>)
         ELSE Some(substr(text, Size(pattern) + 1))
    ELSE None

\* pattern_match giving the text from the '=' on, the '=' included
pattern_match_from_equals(pattern, text) ==
    IF starts_with(text, pattern)
    THEN IF Size(text) = Size(pattern) THEN Some(<<>>)
         ELSE IF text[Size(pattern) + 1] = "=" THEN Some(substr(text, Size(pattern)))
         ELSE None
    ELSE None

\* the test WithPattern::match makes with its own pattern
pattern_match(pattern, text) ==
    IF starts_with(text, pattern)
    THEN IF Size(text) = Size(pattern) THEN Some(<<>>)
         ELSE IF text[Size(pattern) + 1] = "=" THEN Some(substr(text, Size(pattern) + 1))
         ELSE None
    ELSE None

\* match trying the layer's own pattern before the base's patterns
RECURSIVE match_own_first(_, _)
match_own_first(o, text) ==
    IF Top(o).kind = "WithPattern"
    THEN LET matched == pattern_match(Top(o).arg, text)
         IN  IF matched # None THEN matched
             ELSE IF Pattern(Base(o)) THEN match_own_first(Base(o), text) ELSE None
    ELSE match_own_first(Base(o), text)

\* WithPattern::match, inherited unchanged by every other layer
RECURSIVE match(_, _)
match(o, text) ==
    IF Top(o).kind = "WithPattern"
    THEN LET matched == IF Pattern(Base(o)) THEN match(Base(o), text) ELSE None
         IN  IF matched # None THEN matched
             ELSE pattern_match(Top(o).arg, text)
    ELSE match(Base(o), text)

\* a user-supplied parser function, by name
apply_parser(f, type, text) ==
    CASE f = "only_x" ->
           IF text = <<"x">>
           THEN Some(CASE type = "int" -> 2 [] type = "bool" -> TRUE [] type = "string" -> <<"x">>)
           ELSE None

\* parse_impl using the custom parser only when no layer was added above it
parse_impl_of_top(o, text) ==
    IF Top(o).kind = "WithCustomParser" THEN apply_parser(Top(o).arg, value_type(o), text)
    ELSE parse_traits_parse(value_type(o), text)

\* Option::parse_impl, hidden by the most derived WithCustomParser::parse_impl
RECURSIVE parse_impl(_, _)
parse_impl(o, text) ==
    IF Top(o).kind = "WithCustomParser" THEN apply_parser(Top(o).arg, value_type(o), text)
    ELSE IF Top(o).kind = "Option" THEN parse_traits_parse(Top(o).arg.type, text)
    ELSE parse_impl(Base(o), text)

\* a predicate is the set of the values it accepts
validation_predicate(predicate, v) == v \in predicate

\* validate asking the predicate attached last only
RECURSIVE validate_last_only(_, _)
validate_last_only(o, v) ==
    IF Top(o).kind = "WithCheck" THEN validation_predicate(Top(o).arg, v)
    ELSE validate_last_only(Base(o), v)

\* WithCheck::validate, inherited unchanged by every layer above it
RECURSIVE validate(_, _)
validate(o, v) ==
    IF Top(o).kind = "WithCheck"
    THEN IF HasValidationCheck(Base(o)) /\ ~validate(Base(o), v) THEN FALSE
         ELSE validation_predicate(Top(o).arg, v)
    ELSE validate(Base(o), v)

\* WithCheck::validate: the predicates it calls on v, in the order of
\* the calls
RECURSIVE validate_calls(_, _)
validate_calls(o, v) ==
    IF Top(o).kind = "WithCheck"
    THEN IF HasValidationCheck(Base(o))
         THEN IF ~validate(Base(o), v) THEN validate_calls(Base(o), v)
              ELSE Append(validate_calls(Base(o), v), Top(o).arg)
         ELSE <<Top(o).arg>>
    ELSE validate_calls(Base(o), v)

make_parse_result(t) == t

\* parse_matched with the default value as a fallback for a failed value
parse_matched_or_default(o, text) ==
    IF HasImplicitValue(o) /\ text = <<>>
    THEN Some(make_parse_result(implicit_value(o)))
    ELSE LET parse_result == parse_impl(o, text)
         IN  IF parse_result = None \/ (HasValidationCheck(o) /\ ~validate(o, parse_result[1]))
             THEN IF HasDefaultValue(o) THEN Some(make_parse_result(default_value(o))) ELSE None
             ELSE parse_result

\* parse_matched with the implicit value validated like a converted one
parse_matched_validate_all(o, text) ==
    LET parse_result == IF HasImplicitValue(o) /\ text = <<>>
                        THEN Some(make_parse_result(implicit_value(o)))
                        ELSE parse_impl(o, text)
    IN  IF /\ HasValidationCheck(o)
           /\ parse_result # None
           /\ ~validate(o, parse_result[1])
        THEN None
        ELSE parse_result

\* parse_matched returning the validator's message when it rejects
parse_matched_reporting(o, text) ==
    IF HasImplicitValue(o) /\ text = <<>>
    THEN Some(make_parse_result(implicit_value(o)))
    ELSE LET parse_result == parse_impl(o, text)
         IN  IF /\ HasValidationCheck(o)
                /\ parse_result # None
                /\ ~validate(o, parse_result[1])
             THEN <<"error", o[CHOOSE i \in 1..Len(o) : o[i].kind = "WithCheck"].error_message>>
             ELSE parse_result

\* parse_matched refusing an empty text when there is no implicit value
parse_matched_needing_value(o, text) ==
    IF text = <<>>
    THEN IF HasImplicitValue(o) THEN Some(make_parse_result(implicit_value(o))) ELSE None
    ELSE LET parse_result == parse_impl(o, text)
         IN  IF /\ HasValidationCheck(o)
                /\ parse_result # None
                /\ ~validate(o, parse_result[1])
             THEN None
             ELSE parse_result

\* OptionInterface<Base>::parse(argc, argv): the body of `if (matched)`
parse_matched(o, text) ==
    IF HasImplicitValue(o) /\ text = <<>>
    THEN Some(make_parse_result(implicit_value(o)))
    ELSE LET parse_result == parse_impl(o, text)
         IN  IF /\ HasValidationCheck(o)
                /\ parse_result # None
                /\ ~validate(o, parse_result[1])
             THEN None
             ELSE parse_result

\* parse_loop going on to the next token when a matched token fails
RECURSIVE parse_loop_retry(_, _, _)
parse_loop_retry(o, args, i) ==
    IF i > Len(args)
    THEN IF HasDefaultValue(o) THEN Some(make_parse_result(default_value(o)))
         ELSE None
    ELSE LET matched == match(o, args[i])
         IN  IF matched # None /\ parse_matched(o, matched[1]) # None
             THEN parse_matched(o, matched[1])
             ELSE parse_loop_retry(o, args, i + 1)

\* parse_loop failing on a token that no pattern matches
parse_loop_rejecting(o, args, i) ==
    IF i > Len(args)
    THEN IF HasDefaultValue(o) THEN Some(make_parse_result(default_value(o)))
         ELSE None
    ELSE LET matched == match(o, args[i])
         IN  IF matched # None
             THEN parse_matched(o, matched[1])
             ELSE None

\* OptionInterface<Base>::parse(argc, argv): the loop from token i on
RECURSIVE parse_loop(_, _, _)
parse_loop(o, args, i) ==
    IF i > Len(args)
    THEN IF HasDefaultValue(o) THEN Some(make_parse_result(default_value(o)))
         ELSE None
    ELSE LET matched == match(o, args[i])
         IN  IF matched # None
             THEN parse_matched(o, matched[1])
             ELSE parse_loop(o, args, i + 1)

\* option_parse with the loop starting at the second token
option_parse_from_second(o, args) == parse_loop(o, args, 2)

\* OptionInterface<Base>::parse(argc, argv)
option_parse(o, args) == parse_loop(o, args, 1)

\* ------------------------------------------------------------ to_string

\* #type, the text the clp_Opt macro gives to Option's constructor
type_name(type) ==
    CASE type = "int" -> <<"i", "n", "t">>
      [] type = "bool" -> <<"b", "o", "o", "l">>
      [] type = "string" -> <<"s", "t", "d", ":", ":", "s", "t", "r", "i", "n", "g">>

\* Option::hint_text, hidden by the most derived WithCustomHint::hint_text
RECURSIVE hint_text(_)
hint_text(o) ==
    IF Top(o).kind = "WithCustomHint" THEN Top(o).arg
    ELSE IF Top(o).kind = "Option" THEN type_name(Top(o).arg.type)
    ELSE hint_text(Base(o))

\* WithPattern::patterns_to_string, inherited unchanged by every other layer
RECURSIVE patterns_to_string(_)
patterns_to_string(o) ==
    IF Top(o).kind = "WithPattern"
    THEN (IF Pattern(Base(o)) THEN patterns_to_string(Base(o)) \o <<",", " ">> ELSE <<>>)
         \o Top(o).arg
    ELSE patterns_to_string(Base(o))

column_width == 40

\* while (out.size() < column_width) out.push_back(' ')
RECURSIVE pad(_, _)
pad(out, width) == IF Size(out) < width THEN pad(Append(out, " "), width) ELSE out

\* to_string with the lines of the default and the implicit value exchanged
option_to_string_implicit_first(o) ==
    pad(patterns_to_string(o) \o <<" ", "<">> \o hint_text(o) \o <<">">>, column_width)
    \o description(o)
    \o (IF HasImplicitValue(o)
        THEN <<"\n">> \o pad(<<>>, column_width) \o <<"I", "m", "p", "l", "i", "c", "i", "t", "l", "y", ":", " ">>
             \o parse_traits_to_string(value_type(o), implicit_value(o))
        ELSE <<>>)
    \o (IF HasDefaultValue(o)
        THEN <<"\n">> \o pad(<<>>, column_width) \o <<"B", "y", " ", "d", "e", "f", "a", "u", "l", "t", ":", " ">>
             \o parse_traits_to_string(value_type(o), default_value(o))
        ELSE <<>>)
    \o <<"\n">>

\* OptionInterface<Base>::to_string, requires HasDescription<Base>
option_to_string(o) ==
    pad(patterns_to_string(o) \o <<" ", "<">> \o hint_text(o) \o <<">">>, column_width)
    \o description(o)
    \o (IF HasDefaultValue(o)
        THEN <<"\n">> \o pad(<<>>, column_width) \o <<"B", "y", " ", "d", "e", "f", "a", "u", "l", "t", ":", " ">>
             \o parse_traits_to_string(value_type(o), default_value(o))
        ELSE <<>>)
    \o (IF HasImplicitValue(o)
        THEN <<"\n">> \o pad(<<>>, column_width) \o <<"I", "m", "p", "l", "i", "c", "i", "t", "l", "y", ":", " ">>
             \o parse_traits_to_string(value_type(o), implicit_value(o))
        ELSE <<>>)
    \o <<"\n">>

\* ------------------------------------------------------------ Compound

\* a Compound is the sequence of its options, in template-argument order

\* operator |, the four overloads
or_options(a, b) == <<a, b>>
or_compound_option(a, b) == Append(a, b)

\* option | compound with the option put after the compound's options
or_option_compound_last(a, b) == b \o <<a>>

or_option_compound(a, b) == <<a>> \o b
or_compounds(a, b) == a \o b

\* Compound::parse_result_type: one field per option, named by its variable
parse_result_type(c) == {var_name(c[i]) : i \in 1..Len(c)}

\* Compound::access_option: the base subobject of the option's type
access_option(c, var) == c[CHOOSE i \in 1..Len(c) : var_name(c[i]) = var]

\* compound_parse with each option parsing the tokens from its own
\* position on
compound_parse_positional(c, args) ==
    LET opts == [i \in 1..Len(c) |-> option_parse(c[i], SubSeq(args, i, Len(args)))]
    IN  IF ~(\A i \in 1..Len(c) : opts[i] # None)
        THEN None
        ELSE Some([var \in parse_result_type(c) |->
                      opts[CHOOSE i \in 1..Len(c) : var_name(c[i]) = var][1]])

\* compound_parse succeeding with the fields of the options that succeeded
compound_parse_partial(c, args) ==
    LET opts == [i \in 1..Len(c) |-> option_parse(c[i], args)]
        found == {var_name(c[i]) : i \in {j \in 1..Len(c) : opts[j] # None}}
    IN  IF found = {}
        THEN None
        ELSE Some([var \in found |-> option_parse(access_option(c, var), args)[1]])

\* Compound<Options...>::parse: every option parses the whole list, then
\* the results are tested together
compound_parse(c, args) ==
    LET opts == [i \in 1..Len(c) |-> option_parse(c[i], args)]
    IN  IF ~(\A i \in 1..Len(c) : opts[i] # None)
        THEN None
        ELSE Some([var \in parse_result_type(c) |->
                      opts[CHOOSE i \in 1..Len(c) : var_name(c[i]) = var][1]])

\* the option parses a call of Compound::parse makes
compound_calls(c, args) == {var_name(c[i]) : i \in 1..Len(c)}

\* Compound<Options...>::to_string: (option.to_string() + ...)
RECURSIVE compound_to_string(_)
compound_to_string(c) ==
    IF c = <<>> THEN <<>>
    ELSE option_to_string(Head(c)) \o compound_to_string(Tail(c))

\* ------------------------------------------- Command, CommandSelector

\* a Parser: an OptionInterface (one member) or a Compound
OptionParser(o) == [kind |-> "OptionInterface", members |-> <<o>>]
CompoundParser(c) == [kind |-> "Compound", members |-> c]

\* parser_parse with a Compound parsing only its first option
parser_parse_first_member(p, args) ==
    IF p.kind = "Compound" THEN compound_parse(<<p.members[1]>>, args)
    ELSE option_parse(p.members[1], args)

parser_parse(p, args) ==
    IF p.kind = "Compound" THEN compound_parse(p.members, args)
    ELSE option_parse(p.members[1], args)

Command(name, parser) == [kind |-> "Command", name |-> name, parser |-> parser]
Help == [kind |-> "Help", name |-> <<>>, parser |-> [kind |-> "Help", members |-> <<>>]]

ShowHelp == "ShowHelp"

\* the alternative of the selector's variant a command's result is held in
result_type(cmd) ==
    IF cmd.kind = "Help" THEN {ShowHelp} ELSE parse_result_type(cmd.parser.members)

\* Command::match with a prefix test in place of the equality
command_match_prefix(cmd, text) ==
    IF cmd.kind = "Help"
    THEN text = <<"-", "-", "h", "e", "l", "p">> \/ text = <<"-", "h">> \/ text = <<"-", "?">>
    ELSE starts_with(text, cmd.name)

\* Command::match, Help::match
command_match(cmd, text) ==
    IF cmd.kind = "Help"
    THEN text = <<"-", "-", "h", "e", "l", "p">> \/ text = <<"-", "h">> \/ text = <<"-", "?">>
    ELSE text = cmd.name

\* Command::parse handing the whole list to the sub-parser
command_parse_whole(cmd, args) ==
    IF cmd.kind = "Help" THEN Some(ShowHelp)
    ELSE parser_parse(cmd.parser, args)

\* Command::parse (argc - 1, argv + 1), Help::parse
command_parse(cmd, args) ==
    IF cmd.kind = "Help" THEN Some(ShowHelp)
    ELSE parser_parse(cmd.parser, Tail(args))

\* detail::parse_impl trying the commands from the last one to the first
RECURSIVE selector_parse_impl_last(_, _, _)
selector_parse_impl_last(cmds, args, k) ==
    LET next == cmds[Len(cmds) + 1 - k]
    IN  IF command_match(next, args[1])
        THEN LET parsed == command_parse(next, args)
             IN  [result |-> IF parsed = None THEN None
                             ELSE Some([case |-> result_type(next), value |-> parsed[1]]),
                  ran |-> {result_type(next)}]
        ELSE IF Len(cmds) - k > 0
             THEN selector_parse_impl_last(cmds, args, k + 1)
             ELSE [result |-> None, ran |-> {}]

\* detail::parse_impl<Next, Rest...>, Next being the k-th command: what it
\* returns and the commands whose parse it invoked
RECURSIVE selector_parse_impl(_, _, _)
selector_parse_impl(cmds, args, k) ==
    LET next == cmds[k]
    IN  IF command_match(next, args[1])
        THEN LET parsed == command_parse(next, args)
             IN  [result |-> IF parsed = None THEN None
                             ELSE Some([case |-> result_type(next), value |-> parsed[1]]),
                  ran |-> {result_type(next)}]
        ELSE IF Len(cmds) - k > 0
             THEN selector_parse_impl(cmds, args, k + 1)
             ELSE [result |-> None, ran |-> {}]

\* selector_parse passing over the tokens before the first command name
RECURSIVE selector_parse_skipping(_, _)
selector_parse_skipping(cmds, args) ==
    IF Len(args) <= 0 THEN [result |-> None, ran |-> {}]
    ELSE IF \E k \in 1..Len(cmds) : command_match(cmds[k], args[1])
    THEN selector_parse_impl(cmds, args, 1)
    ELSE selector_parse_skipping(cmds, Tail(args))

\* CommandSelector<Commands...>::parse
selector_parse(cmds, args) ==
    IF Len(args) <= 0 THEN [result |-> None, ran |-> {}]
    ELSE selector_parse_impl(cmds, args, 1)

\* operator | on commands and selectors
or_commands(a, b) == <<a, b>>
or_selector_command(a, b) == Append(a, b)
or_command_selector(a, b) == <<a>> \o b

\* ------------------------------------------ CommandWithSharedOptions

\* SharedOptions(parser) | command
or_shared_command(shared, cmd) == [shared_options |-> shared, commands |-> <<cmd>>]

\* CommandWithSharedOptions | command
or_shared_commands_command(a, cmd) ==
    [shared_options |-> a.shared_options, commands |-> Append(a.commands, cmd)]

\* CommandWithSharedOptions::parse: the shared parser and the selector
\* each parse the whole list; the result holds both
shared_parse(shared, cmds, args) ==
    LET shared_arguments == parser_parse(shared, args)
        command == selector_parse(cmds, args).result
    IN  IF shared_arguments = None \/ command = None
        THEN None
        ELSE Some([shared_arguments |-> shared_arguments[1], command |-> command[1]])

\* ------------------------------------------------- inputs of the model

\* the option's name on the command line, and a pattern that holds a '='
Patterns == { <<"-", "w">>, <<"-", "w", "=", "1">> }

\* bare pattern, empty value, a number, a non-number, a longer name
Tokens ==
    { <<"-", "w">>, <<"-", "w", "=">>, <<"-", "w", "=", "1">>,
      <<"-", "w", "=", "x">>, <<"-", "w", "x">> }

DefaultValues(type) ==
    CASE type = "int" -> {7} [] type = "bool" -> {FALSE} [] type = "string" -> {<<"d">>}

ImplicitValues(type) ==
    CASE type = "int" -> {9} [] type = "bool" -> {TRUE} [] type = "string" -> {<<"i">>}

\* each predicate rejects the default value of its type
Predicates(type) ==
    CASE type = "int" -> {{1}} [] type = "bool" -> {{TRUE}} [] type = "string" -> {{<<"1">>}}

ParserFunctions == {"only_x"}

ErrorMessages == { <<"b", "a", "d">> }

\* ------------------------------------------------------------ actions

Composing == pc = "compose" /\ argv = <<>>
Decorators(o) == Len(o) - 1

Decorate(o) ==
    /\ Composing
    /\ Decorators(opt) < MaxLayers
    /\ opt' = o
    /\ UNCHANGED <<cli, commands, argv, result, callee, ran, pc>>

\* operator []
AddPattern == \E p \in Patterns : Decorate(with_pattern(opt, p))

\* default_to without its requires clause
DefaultToUnconstrained ==
    \E v \in DefaultValues(value_type(opt)) : Decorate(default_to(opt, v))

\* default_to, requires(!HasDefaultValue<Base>)
DefaultTo ==
    /\ ~HasDefaultValue(opt)
    /\ \E v \in DefaultValues(value_type(opt)) : Decorate(default_to(opt, v))

\* implicitly, requires(!HasImplicitValue<Base>)
Implicitly ==
    /\ ~HasImplicitValue(opt)
    /\ \E v \in ImplicitValues(value_type(opt)) : Decorate(implicitly(opt, v))

Check ==
    \E p \in Predicates(value_type(opt)) : \E m \in ErrorMessages :
        Decorate(check(opt, p, m))

CustomParser == \E f \in ParserFunctions : Decorate(custom_parser(opt, f))

\* the caller builds the argument list of the next call
PushArg ==
    /\ pc \in {"compose", "args"}
    /\ Len(argv) < MaxArgs
    /\ \E t \in Tokens : argv' = Append(argv, t)
    /\ pc' = "args"
    /\ UNCHANGED <<opt, cli, commands, result, callee, ran>>

\* OptionParse taking from the list the tokens up to the one it matched
OptionParseConsuming ==
    /\ pc \in {"compose", "args", "done"}
    /\ SingleOption(opt)
    /\ result' = option_parse(opt, argv)
    /\ argv' = IF \E i \in 1..Len(argv) : match(opt, argv[i]) # None
               THEN SubSeq(argv, 1 + (CHOOSE i \in 1..Len(argv) :
                                          /\ match(opt, argv[i]) # None
                                          /\ \A j \in 1..(i - 1) : match(opt, argv[j]) = None),
                           Len(argv))
               ELSE argv
    /\ callee' = "option"
    /\ ran' = {var_name(opt)}
    /\ pc' = "done"
    /\ UNCHANGED <<opt, cli, commands>>

\* opt.parse(argc, argv)
OptionParse ==
    /\ pc \in {"compose", "args", "done"}
    /\ SingleOption(opt)
    /\ result' = option_parse(opt, argv)
    /\ callee' = "option"
    /\ ran' = {var_name(opt)}
    /\ pc' = "done"
    /\ UNCHANGED <<opt, cli, commands, argv>>

\* the call has returned; the caller goes on to its next call
Return ==
    /\ pc = "done"
    /\ pc' = "args"
    /\ argv' = <<>>
    /\ result' = NotCalled
    /\ callee' = "none"
    /\ ran' = {}
    /\ UNCHANGED <<opt, cli, commands>>

\* ------------------------------------- a single option, then its parse

\* an option as the README declares one, clp_Opt(type, var)["-w"], or a
\* flag, clp_Flag(var)["-w"]; further decorators follow
LeafOptions ==
    << with_pattern(clp_Opt("int", "width"), <<"-", "w">>),
       with_pattern(clp_Opt("string", "width"), <<"-", "w">>),
       with_pattern(clp_Flag("width"), <<"-", "w">>) >>

LeafInit ==
    /\ \E k \in 1..Len(LeafOptions) : opt = LeafOptions[k]
    /\ cli = <<>>
    /\ commands = <<>>
    /\ argv = <<>>
    /\ result = NotCalled
    /\ callee = "none"
    /\ ran = {}
    /\ pc = "compose"

LeafNext ==
    \/ AddPattern
    \/ DefaultTo
    \/ Implicitly
    \/ Check
    \/ CustomParser
    \/ PushArg
    \/ OptionParse
    \/ Return

LeafSpec == LeafInit /\ [][LeafNext]_vars

\* -------------------------------------- a Compound, then its parse

\* the options of the README's window example, with one-letter patterns
Width == with_pattern(clp_Opt("int", "width"), <<"-", "w">>)
Height == with_pattern(clp_Opt("int", "height"), <<"-", "h">>)
Fullscreen == with_pattern(clp_Flag("fullscreen"), <<"-", "f">>)
Username == default_to(with_pattern(clp_Opt("string", "username"), <<"-", "n">>), <<"a", "n", "o", "n">>)

Options == <<Width, Height, Fullscreen, Username>>

CliTokens ==
    { <<"-", "w", "=", "1">>, <<"-", "w", "=", "x">>, <<"-", "h", "=", "2">>,
      <<"-", "f">>, <<"-", "n", "=", "x">> }

\* the options of a Compound are of pairwise different types
CanJoin(c, o) == \A i \in 1..Len(c) : var_name(c[i]) # var_name(o)

\* cli | option
OrOption ==
    /\ pc = "compose" /\ argv = <<>>
    /\ Len(cli) < MaxMembers
    /\ \E k \in 1..Len(Options) :
          /\ CanJoin(cli, Options[k])
          /\ cli' = IF Len(cli) = 1 THEN or_options(cli[1], Options[k])
                    ELSE or_compound_option(cli, Options[k])
    /\ UNCHANGED <<opt, commands, argv, result, callee, ran, pc>>

\* option | cli
OptionOr ==
    /\ pc = "compose" /\ argv = <<>>
    /\ 1 < Len(cli) /\ Len(cli) < MaxMembers
    /\ \E k \in 1..Len(Options) :
          /\ CanJoin(cli, Options[k])
          /\ cli' = or_option_compound(Options[k], cli)
    /\ UNCHANGED <<opt, commands, argv, result, callee, ran, pc>>

\* cli | (option | option)
OrCompound ==
    /\ pc = "compose" /\ argv = <<>>
    /\ 1 < Len(cli) /\ Len(cli) + 2 <= MaxMembers
    /\ \E k, l \in 1..Len(Options) :
          /\ CanJoin(cli, Options[k])
          /\ CanJoin(cli, Options[l])
          /\ CanJoin(<<Options[k]>>, Options[l])
          /\ cli' = or_compounds(cli, or_options(Options[k], Options[l]))
    /\ UNCHANGED <<opt, commands, argv, result, callee, ran, pc>>

PushCliArg ==
    /\ pc \in {"compose", "args"}
    /\ Len(argv) < MaxCliArgs
    /\ \E t \in CliTokens : argv' = Append(argv, t)
    /\ pc' = "args"
    /\ UNCHANGED <<opt, cli, commands, result, callee, ran>>

\* cli.parse(argc, argv)
CompoundParse ==
    /\ pc \in {"compose", "args", "done"}
    /\ result' = compound_parse(cli, argv)
    /\ callee' = "compound"
    /\ ran' = compound_calls(cli, argv)
    /\ pc' = "done"
    /\ UNCHANGED <<opt, cli, commands, argv>>

CompoundInit ==
    /\ opt = clp_Opt("int", "width")
    /\ \E k \in 1..Len(Options) : cli = <<Options[k]>>
    /\ commands = <<>>
    /\ argv = <<>>
    /\ result = NotCalled
    /\ callee = "none"
    /\ ran = {}
    /\ pc = "compose"

CompoundNext ==
    \/ OrOption
    \/ OptionOr
    \/ OrCompound
    \/ PushCliArg
    \/ CompoundParse
    \/ Return

CompoundSpec == CompoundInit /\ [][CompoundNext]_vars

\* --------------- one argument list given to an option and a Compound

\* the README's cli, width | height | fullscreen | username, and its
\* first two options alone
Window == or_compounds(or_options(Width, Height), or_options(Fullscreen, Username))

WindowInit ==
    /\ \E c \in {or_options(Width, Height), Window} :
          /\ cli = c
          /\ \E i \in 1..Len(c) : opt = c[i]
    /\ commands = <<>>
    /\ argv = <<>>
    /\ result = NotCalled
    /\ callee = "none"
    /\ ran = {}
    /\ pc = "args"

WindowNext ==
    \/ PushCliArg
    \/ OptionParse
    \/ CompoundParse
    \/ Return

WindowSpec == WindowInit /\ [][WindowNext]_vars

\* ------------------------- a documented option, its parse, its help

Hints == { <<"p", "x">>, <<"n">> }
Descriptions == { <<"W", "i", "d", "t", "h">> }

\* hint
Hint == \E h \in Hints : Decorate(hint(opt, h))

\* operator (), requires(!HasDescription<Base>)
Describe ==
    /\ ~HasDescription(opt)
    /\ \E d \in Descriptions : Decorate(with_description(opt, d))

\* the options of the README's help example, and one with a long name
WindowWidth ==
    default_to(
        with_description(
            with_pattern(with_pattern(clp_Opt("int", "width"), <<"-", "w">>), <<"-", "-", "w", "i", "d", "t", "h">>),
            <<"W", "i", "d", "t", "h", " ", "o", "f", " ", "t", "h", "e", " ", "w", "i", "n", "d", "o", "w", " ", "i", "n", " ", "p", "i", "x", "e", "l", "s", ".">>),
        1920)

FullscreenFlag ==
    with_description(
        with_pattern(clp_Flag("fullscreen"), <<"-", "-", "f", "u", "l", "l", "s", "c", "r", "e", "e", "n">>),
        <<"S", "t", "a", "r", "t", " ", "t", "h", "e", " ", "a", "p", "p", "l", "i", "c", "a", "t", "i", "o", "n", " ", "i", "n", " ", "f", "u", "l", "l", "s", "c", "r", "e", "e", "n", " ", "m", "o", "d", "e", ".">>)

ConfigFilePath ==
    hint(
        default_to(
            with_description(
                with_pattern(clp_Opt("string", "config_file_path"), <<"-", "-", "c", "o", "n", "f", "i", "g">>),
                <<"F", "i", "l", "e", " ", "t", "o", " ", "l", "o", "a", "d", " ", "c", "o", "n", "f", "i", "g", "u", "r", "a", "t", "i", "o", "n", " ", "f", "r", "o", "m", ".">>),
            <<".", "/", "c", "o", "n", "f", "i", "g", ".", "j", "s", "o", "n">>),
        <<"p", "a", "t", "h">>)

LongName ==
    with_description(
        with_pattern(clp_Opt("int", "height"), <<"-", "-", "h", "e", "i", "g", "h", "t", "-", "o", "f", "-", "t", "h", "e", "-", "w", "i", "n", "d", "o", "w", "-", "i", "n", "-", "s", "c", "r", "e", "e", "n", "-", "p", "i", "x", "e", "l", "s">>),
        <<"H", "e", "i", "g", "h", "t">>)

HelpOptions == LeafOptions \o <<WindowWidth, FullscreenFlag, ConfigFilePath, LongName>>

HelpClis ==
    { or_compound_option(or_options(WindowWidth, FullscreenFlag), ConfigFilePath),
      or_compounds(or_options(ConfigFilePath, LongName),
                   or_options(FullscreenFlag, WindowWidth)) }

\* opt.parse(argc, argv) on a list of at most one token
ParseShort ==
    /\ pc \in {"compose", "args"}
    /\ argv = <<>>
    /\ SingleOption(opt)
    /\ \E args \in {<<>>} \cup {<<t>> : t \in Tokens} :
          /\ argv' = args
          /\ result' = option_parse(opt, args)
    /\ callee' = "option"
    /\ ran' = {var_name(opt)}
    /\ pc' = "done"
    /\ UNCHANGED <<opt, cli, commands>>

\* opt.to_string()
OptionToString ==
    /\ pc \in {"compose", "args"}
    /\ argv = <<>>
    /\ SingleOption(opt)
    /\ HasDescription(opt)
    /\ result' = option_to_string(opt)
    /\ callee' = "option.to_string"
    /\ ran' = {var_name(opt)}
    /\ pc' = "done"
    /\ UNCHANGED <<opt, cli, commands, argv>>

\* cli.to_string()
CompoundToString ==
    /\ pc \in {"compose", "args"}
    /\ argv = <<>>
    /\ result' = compound_to_string(cli)
    /\ callee' = "compound.to_string"
    /\ ran' = compound_calls(cli, argv)
    /\ pc' = "done"
    /\ UNCHANGED <<opt, cli, commands, argv>>

HelpInit ==
    /\ \E k \in 1..Len(HelpOptions) : opt = HelpOptions[k]
    /\ cli \in HelpClis
    /\ commands = <<>>
    /\ argv = <<>>
    /\ result = NotCalled
    /\ callee = "none"
    /\ ran = {}
    /\ pc = "compose"

HelpNext ==
    \/ AddPattern
    \/ DefaultTo
    \/ Implicitly
    \/ Check
    \/ CustomParser
    \/ Hint
    \/ Describe
    \/ ParseShort
    \/ OptionToString
    \/ CompoundToString
    \/ Return

HelpSpec == HelpInit /\ [][HelpNext]_vars

\* ------------------------------- a CommandSelector, then its parse

Run == Command(<<"r", "u", "n">>, CompoundParser(or_options(Width, Height)))
RunFullscreen == Command(<<"r", "u", "n">>, OptionParser(Fullscreen))
Name == Command(<<"-", "n">>, OptionParser(with_pattern(clp_Opt("string", "username"), <<"-", "n">>)))

Commands == <<Run, RunFullscreen, Name, Help>>

CommandTokens ==
    { <<"r", "u", "n">>, <<"-", "n">>, <<"-", "n", "=", "x">>, <<"-", "h">>,
      <<"-", "w", "=", "1">>, <<"-", "h", "=", "2">> }

\* the commands of a selector have pairwise different result types
CanSelect(cmds, c) == \A i \in 1..Len(cmds) : result_type(cmds[i]) # result_type(c)

\* commands | command
OrCommand ==
    /\ pc = "compose" /\ argv = <<>>
    /\ Len(commands) < MaxMembers
    /\ \E k \in 1..Len(Commands) :
          /\ CanSelect(commands, Commands[k])
          /\ commands' = IF Len(commands) = 1 THEN or_commands(commands[1], Commands[k])
                         ELSE or_selector_command(commands, Commands[k])
    /\ UNCHANGED <<opt, cli, argv, result, callee, ran, pc>>

\* command | commands
CommandOr ==
    /\ pc = "compose" /\ argv = <<>>
    /\ 1 < Len(commands) /\ Len(commands) < MaxMembers
    /\ \E k \in 1..Len(Commands) :
          /\ CanSelect(commands, Commands[k])
          /\ commands' = or_command_selector(Commands[k], commands)
    /\ UNCHANGED <<opt, cli, argv, result, callee, ran, pc>>

PushCommandArg ==
    /\ pc \in {"compose", "args"}
    /\ Len(argv) < MaxCliArgs
    /\ \E t \in CommandTokens : argv' = Append(argv, t)
    /\ pc' = "args"
    /\ UNCHANGED <<opt, cli, commands, result, callee, ran>>

\* commands.parse(argc, argv)
SelectorParse ==
    /\ pc \in {"compose", "args", "done"}
    /\ result' = selector_parse(commands, argv).result
    /\ callee' = "selector"
    /\ ran' = selector_parse(commands, argv).ran
    /\ pc' = "done"
    /\ UNCHANGED <<opt, cli, commands, argv>>

SelectorInit ==
    /\ opt = clp_Opt("int", "width")
    /\ cli = <<>>
    /\ \E k \in 1..Len(Commands) : commands = <<Commands[k]>>
    /\ argv = <<>>
    /\ result = NotCalled
    /\ callee = "none"
    /\ ran = {}
    /\ pc = "compose"

SelectorNext ==
    \/ OrCommand
    \/ CommandOr
    \/ PushCommandArg
    \/ SelectorParse
    \/ Return

SelectorSpec == SelectorInit /\ [][SelectorNext]_vars

\* ------------------- a CommandWithSharedOptions, then its parse

\* the shared options of the README's example, with one-letter patterns
RootPath == default_to(with_pattern(clp_Opt("string", "root_path"), <<"-", "r">>), <<".">>)
DryRun == with_pattern(clp_Flag("dry_run"), <<"-", "d">>)

\* the parsers given to SharedOptions(...): an option, or a Compound
SharedParsers ==
    << <<RootPath>>, or_options(RootPath, DryRun), or_options(Height, DryRun) >>

SharedCommands == <<RunFullscreen, Run, Help>>

SharedTokens ==
    { <<"r", "u", "n">>, <<"-", "d">>, <<"-", "r", "=", "x">>, <<"-", "h">>,
      <<"-", "h", "=", "2">>, <<"-", "w", "=", "1">> }

\* the Parser held by SharedOptions
SharedParser(c) == IF Len(c) = 1 THEN OptionParser(c[1]) ELSE CompoundParser(c)

\* SharedOptions(cli) | command, then ... | command
SharedOrCommand ==
    /\ pc = "compose" /\ argv = <<>>
    /\ Len(commands) < MaxMembers
    /\ \E k \in 1..Len(SharedCommands) :
          /\ CanSelect(commands, SharedCommands[k])
          /\ commands' =
                IF commands = <<>>
                THEN or_shared_command(SharedParser(cli), SharedCommands[k]).commands
                ELSE or_shared_commands_command(
                         [shared_options |-> SharedParser(cli), commands |-> commands],
                         SharedCommands[k]).commands
    /\ UNCHANGED <<opt, cli, argv, result, callee, ran, pc>>

PushSharedArg ==
    /\ pc \in {"compose", "args"}
    /\ commands # <<>>
    /\ Len(argv) < MaxCliArgs
    /\ \E t \in SharedTokens : argv' = Append(argv, t)
    /\ pc' = "args"
    /\ UNCHANGED <<opt, cli, commands, result, callee, ran>>

\* CommandWithSharedOptions::parse(argc, argv)
SharedParse ==
    /\ pc \in {"compose", "args", "done"}
    /\ commands # <<>>
    /\ result' = shared_parse(SharedParser(cli), commands, argv)
    /\ callee' = "shared"
    /\ ran' = {"shared_options", "commands"}
    /\ pc' = "done"
    /\ UNCHANGED <<opt, cli, commands, argv>>

SharedInit ==
    /\ opt = clp_Opt("int", "width")
    /\ \E k \in 1..Len(SharedParsers) : cli = SharedParsers[k]
    /\ commands = <<>>
    /\ argv = <<>>
    /\ result = NotCalled
    /\ callee = "none"
    /\ ran = {}
    /\ pc = "compose"

SharedNext ==
    \/ SharedOrCommand
    \/ PushSharedArg
    \/ SharedParse
    \/ Return

SharedSpec == SharedInit /\ [][SharedNext]_vars

\* ------------- calls of parse on four parsers, in any sequence

\* an option, a Compound, a selector and the selector with the Compound
\* as its shared options; the caller keeps the argument list between
\* calls or starts a new one
CheckedHeight == check(Height, {1}, <<"b", "a", "d">>)

CallsInit ==
    /\ \E c \in {or_options(RootPath, DryRun), or_options(Height, DryRun),
                  or_options(DryRun, CheckedHeight)} :
          /\ cli = c
          /\ \E i \in 1..Len(c) : opt = c[i]
    /\ commands = or_selector_command(or_commands(Run, RunFullscreen), Help)
    /\ argv = <<>>
    /\ result = NotCalled
    /\ callee = "none"
    /\ ran = {}
    /\ pc = "args"

CallsNext ==
    \/ PushSharedArg
    \/ OptionParse
    \/ CompoundParse
    \/ SelectorParse
    \/ SharedParse
    \/ Return

CallsSpec == CallsInit /\ [][CallsNext]_vars

\* ------------------- an option with range checks, then its parse

\* clp_Opt(type, var)["-w"] of each type, and a flag
ValueOptions ==
    << with_pattern(clp_Opt("int", "width"), <<"-", "w">>),
       with_pattern(clp_Opt("bool", "width"), <<"-", "w">>),
       with_pattern(clp_Opt("string", "width"), <<"-", "w">>),
       with_pattern(clp_Flag("width"), <<"-", "w">>) >>

\* two overlapping ranges of values for each type: a value can be in
\* both, in the first only, in the second only
Ranges(type) ==
    CASE type = "int" -> { {1, 2}, {2, 3} }
      [] type = "bool" -> { {TRUE}, {TRUE, FALSE} }
      [] type = "string" -> { {<<>>, <<"1">>, <<"2">>}, {<<"2">>, <<"3">>} }

\* bare pattern, three numbers, a boolean
ValueTokens ==
    { <<"-", "w">>, <<"-", "w", "=", "1">>, <<"-", "w", "=", "2">>,
      <<"-", "w", "=", "3">>, <<"-", "w", "=", "t", "r", "u", "e">> }

\* check(predicate, error_message) with a range as the predicate
CheckRange ==
    \E p \in Ranges(value_type(opt)) : \E m \in ErrorMessages :
        Decorate(check(opt, p, m))

PushValueArg ==
    /\ pc \in {"compose", "args"}
    /\ Len(argv) < MaxArgs
    /\ \E t \in ValueTokens : argv' = Append(argv, t)
    /\ pc' = "args"
    /\ UNCHANGED <<opt, cli, commands, result, callee, ran>>

ValueInit ==
    /\ \E k \in 1..Len(ValueOptions) : opt = ValueOptions[k]
    /\ cli = <<>>
    /\ commands = <<>>
    /\ argv = <<>>
    /\ result = NotCalled
    /\ callee = "none"
    /\ ran = {}
    /\ pc = "compose"

ValueNext ==
    \/ DefaultTo
    \/ CheckRange
    \/ PushValueArg
    \/ OptionParse
    \/ Return

ValueSpec == ValueInit /\ [][ValueNext]_vars

\* ------------------------------------------------ claims: vocabulary

IsPatternLayer(l) == l.kind = "WithPattern"

\* the patterns of option o, in registration order
PatternsOf(o) ==
    LET layers == SelectSeq(o, IsPatternLayer)
    IN  [i \in 1..Len(layers) |-> layers[i].arg]

\* token t is pattern p, or p followed by '=' and anything
Names(p, t) == t = p \/ (Len(t) > Len(p) /\ SubSeq(t, 1, Len(p)) = p /\ t[Len(p) + 1] = "=")

\* what follows "p=" in t (nothing when t is p)
After(p, t) == IF t = p THEN <<>> ELSE SubSeq(t, Len(p) + 2, Len(t))

Named(o, t) == \E i \in 1..Len(PatternsOf(o)) : Names(PatternsOf(o)[i], t)

\* the first registered pattern of o that names t
NamingPattern(o, t) ==
    LET ps == PatternsOf(o)
        i == CHOOSE i \in 1..Len(ps) : Names(ps[i], t) /\ \A j \in 1..(i - 1) : ~Names(ps[j], t)
    IN  ps[i]

SomeNamed(o, args) == \E i \in 1..Len(args) : Named(o, args[i])

\* the first token of args that some pattern of o names
FirstNamed(o, args) ==
    LET k == CHOOSE k \in 1..Len(args) : Named(o, args[k]) /\ \A j \in 1..(k - 1) : ~Named(o, args[j])
    IN  args[k]

TextOfFirstNamed(o, args) == After(NamingPattern(o, FirstNamed(o, args)), FirstNamed(o, args))

TheDefault(o) == (CHOOSE l \in {o[i] : i \in 1..Len(o)} : l.kind = "WithDefaultValue").arg
TheImplicit(o) == (CHOOSE l \in {o[i] : i \in 1..Len(o)} : l.kind = "WithImplicitValue").arg
Accepted(o, v) == \A i \in 1..Len(o) : o[i].kind = "WithCheck" => v \in o[i].arg

\* the number of layers of one kind in option o
Count(o, kind) == Cardinality({i \in 1..Len(o) : o[i].kind = kind})

\* the layers of one kind, in the order they were applied
LayersOf(o, kind) == SelectSeq(o, LAMBDA l : l.kind = kind)

\* the option built from the same base, the same patterns in the same
\* order and the same capabilities, applied in one fixed order
Reordered(o) ==
    <<o[1]>> \o LayersOf(o, "WithPattern") \o LayersOf(o, "WithDefaultValue")
    \o LayersOf(o, "WithImplicitValue") \o LayersOf(o, "WithCheck")
    \o LayersOf(o, "WithCustomParser") \o LayersOf(o, "WithCustomHint")
    \o LayersOf(o, "WithDescription")

\* a set of capabilities: no custom converter or custom hint given twice
OneConverterOneHint(o) ==
    Count(o, "WithCustomParser") <= 1 /\ Count(o, "WithCustomHint") <= 1

\* why option o fails on args, "none" when it does not
Failure(o, args) ==
    IF ~SomeNamed(o, args)
    THEN IF HasDefaultValue(o) THEN "none" ELSE "no match"
    ELSE IF TextOfFirstNamed(o, args) = <<>> /\ HasImplicitValue(o) THEN "none"
    ELSE LET converted == parse_impl(o, TextOfFirstNamed(o, args))
         IN  IF converted = None THEN "conversion"
             ELSE IF ~Accepted(o, converted[1]) THEN "validation"
             ELSE "none"

Failures(members, args) == {Failure(members[i], args) : i \in 1..Len(members)} \ {"none"}

HelpAsked == pc = "done" /\ callee = "option.to_string"

\* the patterns ps joined by ", "
RECURSIVE Joined(_)
Joined(ps) ==
    IF Len(ps) = 1 THEN ps[1]
    ELSE Joined(SubSeq(ps, 1, Len(ps) - 1)) \o <<",", " ">> \o ps[Len(ps)]

Spaces(n) == [i \in 1..n |-> " "]

\* the hint shown: the custom hint attached last, or the type's name
ShownHint(o) ==
    IF HasLayer(o, "WithCustomHint")
    THEN LayersOf(o, "WithCustomHint")[Count(o, "WithCustomHint")].arg
    ELSE type_name(value_type(o))

\* "patterns <hint>"
HelpHead(o) == Joined(PatternsOf(o)) \o <<" ", "<">> \o ShownHint(o) \o <<">">>

TheDescription(o) == LayersOf(o, "WithDescription")[1].arg

\* the lines that follow the description
HelpValueLines(o) ==
    (IF HasLayer(o, "WithDefaultValue")
     THEN <<"\n">> \o Spaces(column_width) \o <<"B", "y", " ", "d", "e", "f", "a", "u", "l", "t", ":", " ">>
          \o parse_traits_to_string(value_type(o), TheDefault(o))
     ELSE <<>>)
    \o (IF HasLayer(o, "WithImplicitValue")
        THEN <<"\n">> \o Spaces(column_width) \o <<"I", "m", "p", "l", "i", "c", "i", "t", "l", "y", ":", " ">>
             \o parse_traits_to_string(value_type(o), TheImplicit(o))
        ELSE <<>>)
    \o <<"\n">>

\* the help text with the description at the fixed column, whatever the
\* length of "patterns <hint>"
HelpAtColumn(o) ==
    SubSeq(HelpHead(o) \o Spaces(column_width), 1, column_width)
    \o TheDescription(o) \o HelpValueLines(o)

\* the help text with "patterns <hint>" whole, padded when it is short
HelpPadded(o) ==
    HelpHead(o) \o Spaces(column_width - Len(HelpHead(o)))
    \o TheDescription(o) \o HelpValueLines(o)

RECURSIVE Concatenated(_)
Concatenated(texts) ==
    IF texts = <<>> THEN <<>> ELSE Head(texts) \o Concatenated(Tail(texts))
CompoundHelpAsked == pc = "done" /\ callee = "compound.to_string"

LeafParsed == pc = "done" /\ callee = "option"
CompoundParsed == pc = "done" /\ callee = "compound"
SelectorParsed == pc = "done" /\ callee = "selector"
SharedParsed == pc = "done" /\ callee = "shared"

\* what the shared options give on args, from each option's own parse
SharedOutcome(c, args) ==
    IF \E i \in 1..Len(c) : option_parse(c[i], args) = None THEN None
    ELSE IF Len(c) = 1 THEN option_parse(c[1], args)
    ELSE Some([var \in {var_name(c[i]) : i \in 1..Len(c)} |->
                  option_parse(c[CHOOSE i \in 1..Len(c) : var_name(c[i]) = var], args)[1]])

\* the first tokens a command answers to
NamesOf(cmd) ==
    IF cmd.kind = "Help"
    THEN {<<"-", "-", "h", "e", "l", "p">>, <<"-", "h">>, <<"-", "?">>}
    ELSE {cmd.name}

Registered(cmds, t) == \E k \in 1..Len(cmds) : t \in NamesOf(cmds[k])

\* the position of the first registered command that answers to t
FirstRegistered(cmds, t) ==
    CHOOSE k \in 1..Len(cmds) : t \in NamesOf(cmds[k]) /\ \A j \in 1..(k - 1) : t \notin NamesOf(cmds[j])

\* the orders of n things: the permutations of 1..n
Orders(n) == Permutations(1..n)
Permuted(cmds, q) == [i \in 1..Len(cmds) |-> cmds[q[i]]]

DistinctNames(cmds) ==
    \A i, j \in 1..Len(cmds) : i # j => NamesOf(cmds[i]) \cap NamesOf(cmds[j]) = {}

\* args with its i-th token moved to position j
MoveTo(args, i, j) ==
    LET rest == SubSeq(args, 1, i - 1) \o SubSeq(args, i + 1, Len(args))
    IN  SubSeq(rest, 1, j - 1) \o <<args[i]>> \o SubSeq(rest, j, Len(rest))

SharedNamed(c, t) == \E k \in 1..Len(c) : Named(c[k], t)

NamedOnce(o, args) == Cardinality({k \in 1..Len(args) : Named(o, args[k])}) <= 1

\* no shared option and no option of the command named first is named by
\* two tokens of args
EachNamedOnce(c, cmds, args) ==
    /\ \A k \in 1..Len(c) : NamedOnce(c[k], args)
    /\ LET members == cmds[FirstRegistered(cmds, args[1])].parser.members
       IN  \A k \in 1..Len(members) : NamedOnce(members[k], args)

\* args with token t put before its j-th token (at the end when j is
\* Len(args) + 1)
Inserted(args, j, t) == SubSeq(args, 1, j - 1) \o <<t>> \o SubSeq(args, j, Len(args))

\* args without its j-th token
Without(args, j) == SubSeq(args, 1, j - 1) \o SubSeq(args, j + 1, Len(args))

\* the tokens the callers of the model write
AllTokens == Tokens \cup CliTokens \cup SharedTokens \cup ValueTokens

\* the first token a pattern of the option names is that pattern, bare
BareFirst(o, args) ==
    /\ SomeNamed(o, args)
    /\ FirstNamed(o, args) = NamingPattern(o, FirstNamed(o, args))

\* the predicates attached to o by check, in the order of attachment
PredicatesOf(o) ==
    LET layers == LayersOf(o, "WithCheck")
    IN  [i \in 1..Len(layers) |-> layers[i].arg]

\* the predicates of ps up to the first that rejects v, that one
\* included; all of ps when none rejects v
UpToFirstRejecting(ps, v) ==
    IF \A i \in 1..Len(ps) : v \in ps[i] THEN ps
    ELSE SubSeq(ps, 1, CHOOSE n \in 1..Len(ps) :
                           /\ v \notin ps[n]
                           /\ \A i \in 1..(n - 1) : v \in ps[i])

\* the first named token carries a text that is converted, with success
Converted(o, args) ==
    /\ SomeNamed(o, args)
    /\ ~(TextOfFirstNamed(o, args) = <<>> /\ HasImplicitValue(o))
    /\ parse_impl(o, TextOfFirstNamed(o, args)) # None

\* ------------------------------------------------------------ claims

\* C1: Compound.parse parses every member against the whole argument
\* list, succeeds exactly when every member's parse of that list succeeds,
\* and then returns the record holding each member's own value; it fails,
\* with no record, as soon as one member fails.
C1_CompoundAllOrNothing ==
    CompoundParsed =>
        /\ ran = {var_name(cli[i]) : i \in 1..Len(cli)}
        /\ (result # None) <=> (\A i \in 1..Len(cli) : option_parse(cli[i], argv) # None)
        /\ result # None =>
              /\ DOMAIN result[1] = {var_name(cli[i]) : i \in 1..Len(cli)}
              /\ \A i \in 1..Len(cli) :
                    result[1][var_name(cli[i])] = option_parse(cli[i], argv)[1]

C1_Witness ==
    /\ CompoundParsed
    /\ Len(cli) = 3
    /\ \E i, j \in 1..Len(cli) :
          /\ option_parse(cli[i], argv) = None
          /\ option_parse(cli[j], argv) # None
          /\ \E k \in 1..Len(argv) : Named(cli[j], argv[k])
    /\ result = None

\* C2: when no token of the argument list is named by a pattern of the
\* option, parse returns the default value if the option has one and
\* fails if it has none.
C2_DefaultWhenAbsent ==
    (LeafParsed /\ ~SomeNamed(opt, argv)) =>
        result = IF HasDefaultValue(opt) THEN Some(TheDefault(opt)) ELSE None

C2_Witness ==
    /\ LeafParsed
    /\ argv # <<>>
    /\ ~SomeNamed(opt, argv)
    /\ HasDefaultValue(opt)
    /\ result = Some(TheDefault(opt))

\* C3, as stated: if the option has an implicit value and the argument
\* list contains a token equal to one of its patterns, parse returns the
\* implicit value.
C3_ImplicitWheneverBarePresent ==
    (/\ LeafParsed
     /\ HasImplicitValue(opt)
     /\ \E i \in 1..Len(argv) : \E j \in 1..Len(PatternsOf(opt)) : argv[i] = PatternsOf(opt)[j])
        => result = Some(TheImplicit(opt))

\* C3, amended: if the option has an implicit value and the first token
\* named by a pattern of the option is equal to the first registered
\* pattern that names it, parse returns the implicit value, with or
\* without a default.
C3_ImplicitWhenFirstNamedIsBare ==
    (/\ LeafParsed
     /\ HasImplicitValue(opt)
     /\ SomeNamed(opt, argv)
     /\ FirstNamed(opt, argv) = NamingPattern(opt, FirstNamed(opt, argv)))
        => result = Some(TheImplicit(opt))

C3_Witness ==
    /\ LeafParsed
    /\ HasImplicitValue(opt)
    /\ HasDefaultValue(opt)
    /\ Len(argv) = 2
    /\ SomeNamed(opt, argv)
    /\ FirstNamed(opt, argv) = NamingPattern(opt, FirstNamed(opt, argv))
    /\ Named(opt, argv[2]) /\ argv[2] # FirstNamed(opt, argv)
    /\ result = Some(TheImplicit(opt))

\* C4, as stated: if the argument list contains a token "pattern=text"
\* whose text the converter rejects, parse fails.
C4_FailsWheneverBadValuePresent ==
    (/\ LeafParsed
     /\ \E i \in 1..Len(argv) : \E j \in 1..Len(PatternsOf(opt)) :
            /\ Names(PatternsOf(opt)[j], argv[i])
            /\ argv[i] # PatternsOf(opt)[j]
            /\ parse_impl(opt, After(PatternsOf(opt)[j], argv[i])) = None)
        => result = None

\* C4, amended: if the first token named by a pattern of the option
\* carries (after the first registered pattern that names it) a text the
\* converter rejects, and that text is not empty or the option has no
\* implicit value, parse fails, default or not.
C4_FailsWhenFirstNamedIsBad ==
    (/\ LeafParsed
     /\ SomeNamed(opt, argv)
     /\ parse_impl(opt, TextOfFirstNamed(opt, argv)) = None
     /\ (TextOfFirstNamed(opt, argv) # <<>> \/ ~HasImplicitValue(opt)))
        => result = None

C4_Witness ==
    /\ LeafParsed
    /\ HasDefaultValue(opt)
    /\ SomeNamed(opt, argv)
    /\ FirstNamed(opt, argv) # NamingPattern(opt, FirstNamed(opt, argv))
    /\ parse_impl(opt, TextOfFirstNamed(opt, argv)) = None
    /\ TextOfFirstNamed(opt, argv) # <<>>
    /\ result = None

\* C5: the outcome of parse is the outcome of parsing the first token a
\* pattern names, alone: what comes after it changes nothing, and a
\* failure on it is final.
C5_FirstMatchDecides ==
    (LeafParsed /\ SomeNamed(opt, argv)) =>
        result = option_parse(opt, <<FirstNamed(opt, argv)>>)

C5_Witness ==
    /\ LeafParsed
    /\ Len(argv) = 2
    /\ Named(opt, argv[1])
    /\ Named(opt, argv[2])
    /\ result = None
    /\ option_parse(opt, <<argv[2]>>) # None

\* C6: match(token) succeeds exactly when some registered pattern names
\* the token, and the matched text is what follows "p=" for the first
\* registered pattern p that names it (empty when the token is p).
C6_Match ==
    Pattern(opt) =>
        \A t \in Tokens :
            match(opt, t) = IF Named(opt, t) THEN Some(After(NamingPattern(opt, t), t)) ELSE None

C6_Witness ==
    /\ LeafParsed
    /\ \E t \in Tokens :
          /\ argv = <<t>>
          /\ \E i, j \in 1..Len(PatternsOf(opt)) :
                /\ i < j
                /\ Names(PatternsOf(opt)[i], t)
                /\ Names(PatternsOf(opt)[j], t)
                /\ After(PatternsOf(opt)[i], t) # After(PatternsOf(opt)[j], t)
          /\ match(opt, t) = Some(After(NamingPattern(opt, t), t))
    /\ \E t \in Tokens : ~Named(opt, t) /\ starts_with(t, PatternsOf(opt)[1])

\* C7: with a validator, a converted value is returned only if every
\* predicate accepts it, and parse fails otherwise; the implicit value
\* and the default value are returned as they are, accepted or not.
C7_ValidatorOnConvertedOnly ==
    (LeafParsed /\ HasValidationCheck(opt)) =>
        result =
            IF ~SomeNamed(opt, argv)
            THEN IF HasDefaultValue(opt) THEN Some(TheDefault(opt)) ELSE None
            ELSE IF TextOfFirstNamed(opt, argv) = <<>> /\ HasImplicitValue(opt)
            THEN Some(TheImplicit(opt))
            ELSE LET converted == parse_impl(opt, TextOfFirstNamed(opt, argv))
                 IN  IF converted # None /\ Accepted(opt, converted[1]) THEN converted ELSE None

C7_Witness ==
    /\ LeafParsed
    /\ HasValidationCheck(opt)
    /\ HasImplicitValue(opt)
    /\ ~Accepted(opt, TheImplicit(opt))
    /\ result = Some(TheImplicit(opt))

\* C8: on a non-empty list the selector takes the first registered
\* command named by the first token, gives its sub-parser the tokens after
\* the first, and returns that sub-parser's outcome under the command's
\* case; it fails when that sub-parser fails, and invokes no other command.
C8_FirstNamedCommandDecides ==
    (/\ SelectorParsed
     /\ argv # <<>>
     /\ Registered(commands, argv[1])
     /\ commands[FirstRegistered(commands, argv[1])].kind = "Command")
        => LET selected == commands[FirstRegistered(commands, argv[1])]
               outcome == parser_parse(selected.parser, SubSeq(argv, 2, Len(argv)))
           IN  /\ result = IF outcome = None THEN None
                           ELSE Some([case |-> result_type(selected), value |-> outcome[1]])
               /\ ran = {result_type(selected)}

C8_Witness ==
    /\ SelectorParsed
    /\ argv # <<>>
    /\ \E i, j \in 1..Len(commands) :
          /\ i < j
          /\ commands[i].kind = "Command" /\ commands[i].name = argv[1]
          /\ commands[j].kind = "Command" /\ commands[j].name = argv[1]
          /\ \A k \in 1..(i - 1) : argv[1] \notin NamesOf(commands[k])
          /\ parser_parse(commands[i].parser, Tail(argv)) = None
          /\ parser_parse(commands[j].parser, Tail(argv)) # None
    /\ result = None

\* C9: the selector fails on the empty list, and fails when the first
\* token is the name of no registered command, whatever follows it.
C9_NoCommandFails ==
    (SelectorParsed /\ (argv = <<>> \/ ~Registered(commands, argv[1])))
        => result = None /\ ran = {}

C9_Witness ==
    /\ SelectorParsed
    /\ Len(argv) > 1
    /\ ~Registered(commands, argv[1])
    /\ \E k \in 1..Len(commands) :
          /\ commands[k].kind = "Command"
          /\ commands[k].name = argv[2]
          /\ starts_with(argv[1], commands[k].name)
          /\ parser_parse(commands[k].parser, Tail(argv)) # None
    /\ result = None

\* C10: when the registered names are pairwise different, the outcome is
\* the same for every registration order of the commands; when two
\* commands have the same name, the one registered first is selected.
C10_OrderMattersOnlyOnTies ==
    SelectorParsed =>
        /\ DistinctNames(commands) =>
              \A q \in Orders(Len(commands)) :
                  selector_parse(Permuted(commands, q), argv).result = result
        /\ \A i, j \in 1..Len(commands) :
              (/\ i < j
               /\ argv # <<>>
               /\ argv[1] \in NamesOf(commands[i])
               /\ argv[1] \in NamesOf(commands[j]))
                  => result_type(commands[j]) \notin ran

C10_Witness ==
    /\ SelectorParsed
    /\ Len(commands) = 3
    /\ ~DistinctNames(commands)
    /\ result # None
    /\ \E i, j \in 1..Len(commands) :
          /\ i < j
          /\ argv[1] \in NamesOf(commands[i])
          /\ argv[1] \in NamesOf(commands[j])
          /\ result[1].case = result_type(commands[i])
          /\ command_parse(commands[j], argv) # None

\* C11: the parse of a selector with shared options succeeds exactly when
\* the shared options parse the whole list and the selector parses the
\* same whole list; the result then holds the shared options' result and
\* the selector's tagged result, unchanged; otherwise the parse fails.
C11_SharedBothOnFullList ==
    SharedParsed =>
        LET shared_arguments == SharedOutcome(cli, argv)
            command == selector_parse(commands, argv).result
        IN  /\ (result # None) <=> (shared_arguments # None /\ command # None)
            /\ result # None =>
                  /\ result[1].shared_arguments = shared_arguments[1]
                  /\ result[1].command = command[1]

C11_Witness ==
    /\ SharedParsed
    /\ Len(cli) = 2
    /\ Len(argv) = 3
    /\ result # None
    /\ \E i \in 2..Len(argv) : \E k \in 1..Len(cli) :
          /\ Named(cli[k], argv[i])
          /\ ~HasDefaultValue(cli[k])
    /\ result[1].command.case = {"width", "height"}

C13_AnyTokenOrder ==
    /\ LeafParsed =>
          \A q \in Orders(Len(argv)) : option_parse(opt, Permuted(argv, q)) = result
    /\ CompoundParsed =>
          \A q \in Orders(Len(argv)) : compound_parse(cli, Permuted(argv, q)) = result

\* C13, amended: when no option is named by more than one token of the
\* argument list, parsing any permutation of the list gives the same
\* outcome as parsing the list, for an option and for a Compound.
C13_TokenOrderWhenNamedOnce ==
    /\ (LeafParsed /\ NamedOnce(opt, argv)) =>
          \A q \in Orders(Len(argv)) : option_parse(opt, Permuted(argv, q)) = result
    /\ (CompoundParsed /\ \A i \in 1..Len(cli) : NamedOnce(cli[i], argv)) =>
          \A q \in Orders(Len(argv)) : compound_parse(cli, Permuted(argv, q)) = result

C13_Witness ==
    /\ CompoundParsed
    /\ Len(argv) = 3
    /\ Len(cli) = 4
    /\ \A i \in 1..Len(cli) : NamedOnce(cli[i], argv)
    /\ Cardinality({i \in 1..Len(cli) : SomeNamed(cli[i], argv)}) = 3
    /\ result # None
    /\ \E q \in Orders(Len(argv)) :
          /\ Permuted(argv, q) # argv
          /\ compound_parse(cli, Permuted(argv, q)) = result

\* C14: for two options A and B of different fields and any argument
\* list, (A | B).parse and (B | A).parse succeed on the same lists and
\* then give the same value to A's field and the same value to B's field.
C14_CompoundCommutes ==
    (CompoundParsed /\ Len(cli) = 2) =>
        LET swapped == compound_parse(or_options(cli[2], cli[1]), argv)
        IN  /\ (swapped # None) <=> (result # None)
            /\ result # None =>
                  \A i \in 1..2 : swapped[1][var_name(cli[i])] = result[1][var_name(cli[i])]

C14_Witness ==
    /\ CompoundParsed
    /\ Len(cli) = 2
    /\ Len(argv) = 2
    /\ Named(cli[1], argv[1])
    /\ Named(cli[2], argv[2])
    /\ ~HasDefaultValue(cli[1])
    /\ ~HasDefaultValue(cli[2])
    /\ result # None
    /\ result[1][var_name(cli[1])] # result[1][var_name(cli[2])]
    /\ compound_parse(or_options(cli[2], cli[1]), argv) = result

\* C15: every way of bracketing the options of a Compound, (A | B) | C,
\* A | (B | C) or Compound | Compound, builds the same Compound: the same
\* options, unmodified, in the same left-to-right order; so every
\* bracketing gives the same parse result for the argument list.
C15_OrAssociative ==
    (CompoundParsed /\ Len(cli) >= 3) =>
        LET n == Len(cli)
            init == SubSeq(cli, 1, n - 1)
            tail == SubSeq(cli, 2, n)
            left == or_compound_option(
                        IF n = 3 THEN or_options(init[1], init[2]) ELSE init, cli[n])
            right == or_option_compound(
                         cli[1], IF n = 3 THEN or_options(tail[1], tail[2]) ELSE tail)
        IN  /\ left = cli
            /\ right = cli
            /\ compound_parse(left, argv) = result
            /\ compound_parse(right, argv) = result
            /\ \A k \in 2..(n - 2) :
                  LET both == or_compounds(SubSeq(cli, 1, k), SubSeq(cli, k + 1, n))
                  IN  both = cli /\ compound_parse(both, argv) = result

C15_Witness ==
    /\ CompoundParsed
    /\ Len(cli) = 4
    /\ result # None
    /\ \E i \in 1..Len(argv) : Named(cli[4], argv[i])
    /\ or_compounds(or_options(cli[1], cli[2]), or_options(cli[3], cli[4])) = cli
    /\ or_option_compound(cli[1], or_compound_option(or_options(cli[2], cli[3]), cli[4])) = cli

\* C16, as stated: no option that can be composed has two layers of the
\* same capability, whichever of the six capabilities it is.
C16_EveryCapabilityOnce ==
    \A kind \in {"WithDefaultValue", "WithImplicitValue", "WithCheck",
                  "WithCustomParser", "WithCustomHint", "WithDescription"} :
        Count(opt, kind) <= 1

\* C16, amended: no option that can be composed has two default values,
\* two implicit values or two descriptions, before a parse or after it;
\* a validator, a custom converter and a custom hint can be attached
\* again.
C16_DefaultImplicitDescriptionOnce ==
    \A kind \in {"WithDefaultValue", "WithImplicitValue", "WithDescription"} :
        Count(opt, kind) <= 1

C16_Witness ==
    /\ pc = "done"
    /\ callee = "option"
    /\ result # None
    /\ \E kind \in {"WithCheck", "WithCustomParser", "WithCustomHint"} : Count(opt, kind) = 2

\* C17: an option returns the parse result and renders the help text
\* of the option built from the same base, the same patterns in the same
\* order and the same set of capabilities applied in one fixed order; so
\* any two orders of applying them give the same result and the same text.
C17_LayerOrderIrrelevant ==
    OneConverterOneHint(opt) =>
        /\ LeafParsed => result = option_parse(Reordered(opt), argv)
        /\ HelpAsked => result = option_to_string(Reordered(opt))

C17_Witness ==
    /\ LeafParsed
    /\ OneConverterOneHint(opt)
    /\ Reordered(opt) # opt
    /\ HasLayer(opt, "WithCustomParser")
    /\ Top(opt).kind # "WithCustomParser"
    /\ argv # <<>>
    /\ Named(opt, argv[1])
    /\ result # None
    /\ result # parse_traits_parse(value_type(opt), TextOfFirstNamed(opt, argv))

C21_UnnamedTokensIgnored ==
    /\ LeafParsed =>
          \A t \in AllTokens : ~Named(opt, t) =>
              \A j \in 1..(Len(argv) + 1) :
                  option_parse(opt, Inserted(argv, j, t)) = result
    /\ CompoundParsed =>
          \A t \in AllTokens : (\A i \in 1..Len(cli) : ~Named(cli[i], t)) =>
              \A j \in 1..(Len(argv) + 1) :
                  compound_parse(cli, Inserted(argv, j, t)) = result

C21_Witness ==
    /\ CompoundParsed
    /\ Len(argv) = 3
    /\ \A i \in 1..Len(cli) : ~Named(cli[i], argv[2])
    /\ \E i \in 1..Len(cli) : Named(cli[i], argv[1])
    /\ \E i \in 1..Len(cli) : Named(cli[i], argv[3])
    /\ result # None
    /\ result = compound_parse(cli, Without(argv, 2))

\* C22: for an option with an implicit value, when the first token named
\* by a pattern of the option is that pattern followed by '=' and nothing
\* else, parse returns the implicit value, as it does for the bare pattern:
\* the empty text is never converted and the implicit value never validated.
C22_EmptyValueIsImplicit ==
    (/\ LeafParsed
     /\ HasImplicitValue(opt)
     /\ SomeNamed(opt, argv)
     /\ FirstNamed(opt, argv) = NamingPattern(opt, FirstNamed(opt, argv)) \o <<"=">>)
        => /\ result = Some(TheImplicit(opt))
           /\ result = option_parse(opt, <<NamingPattern(opt, FirstNamed(opt, argv))>>)

C22_Witness ==
    /\ LeafParsed
    /\ HasImplicitValue(opt)
    /\ HasValidationCheck(opt)
    /\ ~Accepted(opt, TheImplicit(opt))
    /\ Len(argv) = 2
    /\ ~Named(opt, argv[1])
    /\ Named(opt, argv[2])
    /\ argv[2] = NamingPattern(opt, argv[2]) \o <<"=">>
    /\ parse_impl(opt, <<>>) = None
    /\ result = Some(TheImplicit(opt))

\* C23, as stated: for an option without an implicit value, when the
\* first named token is the bare pattern, parse fails if the option is of
\* type int or bool, default or not, and returns the empty string if it is
\* of type string.
C23_BareGivesEmptyString ==
    (LeafParsed /\ ~HasImplicitValue(opt) /\ BareFirst(opt, argv)) =>
        result = IF value_type(opt) = "string" THEN Some(<<>>) ELSE None

\* C23, amended: for an option without an implicit value that converts
\* with its type's own conversion, when the first named token is the bare
\* pattern, the empty text is converted: parse fails if the option is of
\* type int or bool, default or not; if it is of type string, parse
\* returns the empty string when every predicate attached by check accepts
\* it (none attached, or each accepting) and fails otherwise.
C23_BareIsConvertedAndValidated ==
    (/\ LeafParsed
     /\ ~HasImplicitValue(opt)
     /\ ~HasLayer(opt, "WithCustomParser")
     /\ BareFirst(opt, argv)) =>
        result = IF value_type(opt) = "string" /\ Accepted(opt, <<>>) THEN Some(<<>>) ELSE None

C23_Witness ==
    /\ LeafParsed
    /\ ~HasImplicitValue(opt)
    /\ HasDefaultValue(opt)
    /\ HasValidationCheck(opt)
    /\ value_type(opt) = "string"
    /\ Len(argv) = 2
    /\ Named(opt, argv[1])
    /\ argv[1] = NamingPattern(opt, argv[1])
    /\ argv[2] # argv[1]
    /\ Accepted(opt, <<>>)
    /\ result = Some(<<>>)

\* C24: when check was applied more than once, a converted value is
\* returned if and only if every attached predicate accepts it, and parse
\* fails otherwise; the predicates are called in the order of attachment,
\* and none is called after one has rejected the value.
C24_ChecksConjunctiveInOrder ==
    (LeafParsed /\ Count(opt, "WithCheck") >= 2 /\ Converted(opt, argv)) =>
        LET converted == parse_impl(opt, TextOfFirstNamed(opt, argv))
            ps == PredicatesOf(opt)
        IN  /\ result = IF \A i \in 1..Len(ps) : converted[1] \in ps[i]
                        THEN converted ELSE None
            /\ validate_calls(opt, converted[1]) = UpToFirstRejecting(ps, converted[1])

C24_Witness ==
    /\ LeafParsed
    /\ Count(opt, "WithCheck") = 2
    /\ Converted(opt, argv)
    /\ LET v == parse_impl(opt, TextOfFirstNamed(opt, argv))[1]
           ps == PredicatesOf(opt)
       IN  /\ v \notin ps[1]
           /\ v \in ps[2]
           /\ validate_calls(opt, v) = <<ps[1]>>
    /\ result = None

====
